---------------------------- MODULE Spec2Model ----------------------------
(***************************************************************************)
(* msd-pageimages: the crawl loop of the actor entry point (Actor.main)    *)
(* and of the API server (POST /analyze-multi), the single page endpoint   *)
(* (POST /analyze), the page analyzer (PageImagesAnalyzer) and the domain  *)
(* aggregation (calculateDomainAnalysis).                                  *)
(*                                                                         *)
(* A JavaScript string is a sequence of tokens (atomic substrings), so     *)
(* that concatenation is \o, startsWith is the prefix test and a URL is    *)
(* parsed from its text.  "https://example.com/a#top" is                   *)
(* <<"https://", "example.com", "/", "a", "#top">>.                        *)
(***************************************************************************)
EXTENDS Integers, Sequences, FiniteSets, TLC

(***************************************************************************)
(* Bounds of the model.                                                    *)
(***************************************************************************)
MaxPagesBound == 2
MaxLinks == 2
MaxImgs == 2
MaxPayload == 3
MaxResults == 3

(***************************************************************************)
(* Strings.                                                                *)
(***************************************************************************)
Schemes == {"https://"}
HostHeads == {"example.com", "other.org"}
HostTails == {".evil.org"}
PathTokens == {"/", "a", "b", "img", ".png", ".jpg", ".JPG", ".svg", ".bin"}
FragTokens == {"#top"}

THROWN == <<"<thrown>">>

StartsWith(s, p) ==
    /\ Len(p) <= Len(s)
    /\ SubSeq(s, 1, Len(p)) = p

\* s.startsWith('http')
StartsWithHttp(s) == Len(s) > 0 /\ s[1] \in Schemes

\* s.startsWith('/')
StartsWithSlash(s) == Len(s) > 0 /\ s[1] = "/"

(***************************************************************************)
(* new URL(s): the WHATWG parse of an absolute URL.  hostEnd is the index  *)
(* of the last token of the host; what follows is the path, then an        *)
(* optional fragment.                                                      *)
(***************************************************************************)
HostEnd(s) ==
    IF Len(s) >= 2 /\ s[1] \in Schemes /\ s[2] \in HostHeads
    THEN CHOOSE i \in 2..Len(s) :
            /\ \A j \in 3..i : s[j] \in HostTails
            /\ (i = Len(s) \/ s[i + 1] \notin HostTails)
    ELSE 0

UrlFrag(s) ==
    IF Len(s) > 0 /\ s[Len(s)] \in FragTokens THEN <<s[Len(s)]>> ELSE <<>>

UrlPath(s) == SubSeq(s, HostEnd(s) + 1, Len(s) - Len(UrlFrag(s)))

\* new URL(s) does not throw
CanParse(s) ==
    /\ HostEnd(s) > 0
    /\ \A i \in 1..Len(UrlPath(s)) : UrlPath(s)[i] \in PathTokens
    /\ (UrlPath(s) = <<>> \/ UrlPath(s)[1] = "/")

\* new URL(s).origin
Origin(s) == SubSeq(s, 1, HostEnd(s))

\* new URL(s).hostname
Hostname(s) == SubSeq(s, 2, HostEnd(s))

\* new URL(s).pathname: "/" for the bare origin
Pathname(s) == IF UrlPath(s) = <<>> THEN <<"/">> ELSE UrlPath(s)

\* new URL(s).href
Href(s) == Origin(s) \o Pathname(s) \o UrlFrag(s)

\* s.startsWith('data:')
IsDataUri(s) == Len(s) > 0 /\ s[1] = "data:"

\* new URL(link, base).href, THROWN when the constructor throws
ResolveHref(link, base) ==
    IF CanParse(link) THEN Href(link)
    ELSE IF IsDataUri(link) THEN link
    ELSE IF ~CanParse(base) \/ StartsWithHttp(link) THEN THROWN
    ELSE IF link = <<>> THEN Origin(base) \o Pathname(base)
    ELSE IF link[1] \in FragTokens /\ Len(link) = 1
         THEN Origin(base) \o Pathname(base) \o link
    ELSE IF link[1] = "/" /\ \A i \in 1..Len(link) : link[i] \in PathTokens
         THEN Origin(base) \o link
    ELSE IF \A i \in 1..Len(link) : link[i] \in PathTokens
         THEN LET p == Pathname(base)
                  lastSlash == CHOOSE i \in 1..Len(p) :
                                  p[i] = "/" /\ \A j \in (i + 1)..Len(p) : p[j] # "/"
              IN  Origin(base) \o SubSeq(p, 1, lastSlash) \o link
    ELSE THROWN

(***************************************************************************)
(* URLNormalizer.normalize (src/url-normalizer.js is not among the source  *)
(* files): the fragment is stripped and the bare origin gets its slash;    *)
(* an unparseable URL throws.                                              *)
(***************************************************************************)
normalize(url) ==
    IF CanParse(url) THEN Origin(url) \o Pathname(url) ELSE THROWN

(***************************************************************************)
(* JavaScript objects used as histograms keep their keys in insertion      *)
(* order: a sequence of [type, count].                                     *)
(***************************************************************************)
ObjHas(obj, key) == \E i \in 1..Len(obj) : obj[i].type = key

ObjGet(obj, key) ==
    IF ObjHas(obj, key)
    THEN obj[CHOOSE i \in 1..Len(obj) : obj[i].type = key].count
    ELSE 0

\* obj[key] = (obj[key] || 0) + n
ObjAdd(obj, key, n) ==
    IF ObjHas(obj, key)
    THEN [i \in 1..Len(obj) |->
            IF obj[i].type = key
            THEN [type |-> key, count |-> obj[i].count + n]
            ELSE obj[i]]
    ELSE Append(obj, [type |-> key, count |-> n])

\* Math.floor(a / b) for a >= 0, b > 0
FloorDiv(a, b) == a \div b

\* Math.round(a / b) for a >= 0, b > 0
RoundDiv(a, b) == (2 * a + b) \div (2 * b)

(***************************************************************************)
(* PageImagesAnalyzer                                                      *)
(***************************************************************************)
NoAttr == <<"<undefined>">>

\* attr || ''
OrEmpty(attr) == IF attr = NoAttr THEN <<>> ELSE attr

RECURSIVE TrimLeft(_)
TrimLeft(s) ==
    IF Len(s) > 0 /\ s[1] = " " THEN TrimLeft(Tail(s)) ELSE s

RECURSIVE TrimRight(_)
TrimRight(s) ==
    IF Len(s) > 0 /\ s[Len(s)] = " "
    THEN TrimRight(SubSeq(s, 1, Len(s) - 1))
    ELSE s

\* s.trim()
Trim(s) == TrimRight(TrimLeft(s))

\* !!alt && alt.trim() !== ''
hasAlt(alt) == alt # <<>> /\ Trim(alt) # <<>>

\* pathname.toLowerCase(), token by token
Lower(t) == IF t = ".JPG" THEN ".jpg" ELSE t

\* pathname.toLowerCase().endsWith(ext)
PathEndsWith(imageUrl, ext) ==
    LET p == Pathname(imageUrl)
    IN  Len(p) > 0 /\ Lower(p[Len(p)]) = ext

\* the pathname of a data: URL is all that follows the scheme
DataPathEndsWith(imageUrl, ext) ==
    Len(imageUrl) > 1 /\ Lower(imageUrl[Len(imageUrl)]) = ext

\* pathname.endsWith(ext), the pathname taken as the kind of URL has it
ExtIs(imageUrl, data, ext) ==
    IF data THEN DataPathEndsWith(imageUrl, ext)
    ELSE PathEndsWith(imageUrl, ext)

ContentTypeOfExt(imageUrl, data) ==
    IF ExtIs(imageUrl, data, ".jpg") \/ ExtIs(imageUrl, data, ".jpeg")
    THEN <<"image", "/", "jpeg">>
    ELSE IF ExtIs(imageUrl, data, ".png") THEN <<"image", "/", "png">>
    ELSE IF ExtIs(imageUrl, data, ".gif") THEN <<"image", "/", "gif">>
    ELSE IF ExtIs(imageUrl, data, ".webp") THEN <<"image", "/", "webp">>
    ELSE IF ExtIs(imageUrl, data, ".svg") THEN <<"image", "/", "svg+xml">>
    ELSE IF ExtIs(imageUrl, data, ".bmp") THEN <<"image", "/", "bmp">>
    ELSE IF ExtIs(imageUrl, data, ".ico") THEN <<"image", "/", "x-icon">>
    ELSE IF ExtIs(imageUrl, data, ".tiff") \/ ExtIs(imageUrl, data, ".tif")
    THEN <<"image", "/", "tiff">>
    ELSE <<"image", "/", "unknown">>

\* THROWN when new URL(imageUrl) throws
detectContentTypeFromUrl(imageUrl) ==
    IF IsDataUri(imageUrl) THEN ContentTypeOfExt(imageUrl, TRUE)
    ELSE IF CanParse(imageUrl) THEN ContentTypeOfExt(imageUrl, FALSE)
    ELSE THROWN

\* the index of the first t in s from index from on; Len(s) + 1 if none
RECURSIVE IndexFrom(_, _, _)
IndexFrom(s, t, from) ==
    IF from > Len(s) THEN Len(s) + 1
    ELSE IF s[from] = t THEN from
    ELSE IndexFrom(s, t, from + 1)

\* s.split(t)[0]
SplitFirst(s, t) == SubSeq(s, 1, IndexFrom(s, t, 1) - 1)

\* s.split(t)[1], given the index of the first t (it is undefined when
\* s holds no t)
SplitSecondAt(s, t, first) ==
    SubSeq(s, first + 1, IndexFrom(s, t, first + 1) - 1)

HasToken(s, t) == \E i \in 1..Len(s) : s[i] = t

\* part || 'unknown'
OrUnknown(part) == IF part = <<>> THEN <<"unknown">> ELSE part

\* contentType.split('/')[1] || 'unknown'
TypeOf(contentType) ==
    IF ~HasToken(contentType, "/") THEN <<"unknown">>
    ELSE OrUnknown(SplitSecondAt(contentType, "/",
                                 IndexFrom(contentType, "/", 1)))

\* Math.round((bytes / 1000) * 100) / 100, in hundredths of a kB
KbHundredths(bytes) == RoundDiv(bytes, 10)

(***************************************************************************)
(* The answer to the HEAD request of one image:                            *)
(*   [ok |-> TRUE, status, contentType (<<>>: no header), contentLength    *)
(*    (-1: no header or not a number)]                                     *)
(*   [ok |-> FALSE, status (0: the error carries no response)]             *)
(***************************************************************************)
HeadOutcomes ==
    { [ok |-> TRUE, status |-> 200, contentType |-> <<"image", "/", "png">>,
       contentLength |-> 1000],
      [ok |-> TRUE, status |-> 200, contentType |-> <<>>, contentLength |-> -1],
      [ok |-> TRUE, status |-> 404, contentType |-> <<"text">>,
       contentLength |-> 300],
      [ok |-> FALSE, status |-> 0],
      [ok |-> FALSE, status |-> 503] }

\* a thrown error, as a value
Thrown == [thrown |-> TRUE]

IsThrown(x) == "thrown" \in DOMAIN x

\* header.match(/data:([^;]+)/): the text after "data:" up to the first ";"
MimeOf(header) == SubSeq(header, 2, IndexFrom(header, ";base64", 2) - 1)

\* mimeMatch ? mimeMatch[1] : 'image/unknown'
MimeOrUnknown(mime) ==
    IF mime # <<>> THEN mime ELSE <<"image", "/", "unknown">>

ImageInfo(contentType, sizeInBytes, statusCode) ==
    [contentType |-> contentType, sizeInBytes |-> sizeInBytes,
     sizeInKb |-> IF sizeInBytes > 0 THEN KbHundredths(sizeInBytes) ELSE 0,
     statusCode |-> statusCode]

\* parseInt(header) || 0
ContentLength(head) == IF head.contentLength > 0 THEN head.contentLength ELSE 0

detectImageInfo(imageUrl, head) ==
    IF IsDataUri(imageUrl)
    THEN IF ~HasToken(imageUrl, ",")
         THEN Thrown                    \* data is undefined: data.length
         ELSE ImageInfo(
                MimeOrUnknown(MimeOf(SplitFirst(imageUrl, ","))),
                RoundDiv(Len(SplitSecondAt(imageUrl, ",",
                                           IndexFrom(imageUrl, ",", 1))) * 3, 4),
                200)
    ELSE IF ~CanParse(imageUrl)
    THEN Thrown       \* axios.head rejects; the fallback's new URL throws
    ELSE IF head.ok
    THEN ImageInfo(IF head.contentType # <<>> THEN head.contentType
                   ELSE detectContentTypeFromUrl(imageUrl),
                   ContentLength(head), head.status)
    ELSE ImageInfo(detectContentTypeFromUrl(imageUrl), 0,
                   IF head.status # 0 THEN head.status ELSE 500)

\* the imageData object of an image, before its size and type are known
ImageData(el, index, fullUrl, alt, title) ==
    [imageUrl |-> fullUrl, imageIndex |-> index, alt |-> alt, title |-> title,
     width |-> OrEmpty(el.width), height |-> OrEmpty(el.height),
     hasAlt |-> hasAlt(alt), hasTitle |-> hasAlt(title),
     contentType |-> <<"unknown">>, sizeInBytes |-> 0, sizeInKb |-> 0,
     statusCode |-> 200]

\* an image tracked as lacking alt text only when its alt is empty
PushImageUntrimmed(acc, imageData, includeAltTextAnalysis) ==
    [acc EXCEPT
        !.images = Append(@, imageData),
        !.imagesWithoutAlt =
            IF includeAltTextAnalysis /\ imageData.alt = <<>>
            THEN Append(@, [imageUrl |-> imageData.imageUrl,
                            imageIndex |-> imageData.imageIndex])
            ELSE @]

\* images.push(imageData) and the tracking of images without alt text
PushImage(acc, imageData, includeAltTextAnalysis) ==
    [acc EXCEPT
        !.images = Append(@, imageData),
        !.imagesWithoutAlt =
            IF includeAltTextAnalysis
               /\ (imageData.alt = <<>> \/ Trim(imageData.alt) = <<>>)
            THEN Append(@, [imageUrl |-> imageData.imageUrl,
                            imageIndex |-> imageData.imageIndex])
            ELSE @]

\* size analysis requested: imageInfo is what detectImageInfo returned or
\* threw
WithImageInfo(acc, imageData, imageInfo, includeAltTextAnalysis) ==
    IF IsThrown(imageInfo)
    THEN PushImage(acc,
                   [imageData EXCEPT !.statusCode = 500]
                       @@ [error |-> "message"],
                   includeAltTextAnalysis)
    ELSE PushImage([acc EXCEPT
                      !.totalImageSize = @ + imageInfo.sizeInBytes,
                      !.imageTypes = ObjAdd(@, TypeOf(imageInfo.contentType), 1)],
                   [imageData EXCEPT
                      !.contentType = imageInfo.contentType,
                      !.sizeInBytes = imageInfo.sizeInBytes,
                      !.sizeInKb = imageInfo.sizeInKb,
                      !.statusCode = imageInfo.statusCode],
                   includeAltTextAnalysis)

\* no size analysis: contentType is what detectContentTypeFromUrl returned,
\* THROWN when it threw (the image is skipped)
WithUrlType(acc, imageData, contentType, includeAltTextAnalysis) ==
    IF contentType = THROWN THEN acc
    ELSE PushImage([acc EXCEPT
                      !.imageTypes = ObjAdd(@, TypeOf(contentType), 1)],
                   [imageData EXCEPT !.contentType = contentType],
                   includeAltTextAnalysis)

\* src resolved against the page
FullUrl(src, baseUrl) ==
    IF StartsWithHttp(src) THEN src
    ELSE IF StartsWithSlash(src) THEN Origin(baseUrl) \o src
    ELSE ResolveHref(src, baseUrl)

\* every image inspected, whatever the size-analysis option
AnalyzeResolvedInspecting(acc, el, index, fullUrl, includeImageSizeAnalysis, includeAltTextAnalysis, head) ==
    IF fullUrl = THROWN THEN acc
    ELSE WithImageInfo(acc,
                       ImageData(el, index, fullUrl, OrEmpty(el.alt),
                                 OrEmpty(el.title)),
                       detectImageInfo(fullUrl, head), includeAltTextAnalysis)

AnalyzeResolved(acc, el, index, fullUrl, includeImageSizeAnalysis, includeAltTextAnalysis, head) ==
    IF fullUrl = THROWN THEN acc                     \* skip invalid URLs
    ELSE IF includeImageSizeAnalysis
    THEN WithImageInfo(acc,
                       ImageData(el, index, fullUrl, OrEmpty(el.alt),
                                 OrEmpty(el.title)),
                       detectImageInfo(fullUrl, head), includeAltTextAnalysis)
    ELSE WithUrlType(acc,
                     ImageData(el, index, fullUrl, OrEmpty(el.alt),
                               OrEmpty(el.title)),
                     detectContentTypeFromUrl(fullUrl), includeAltTextAnalysis)

\* one iteration of the loop of analyzeImages, for the element el at
\* position index (imageIndex: i + 1)
AnalyzeImage(acc, el, index, baseUrl, includeImageSizeAnalysis, includeAltTextAnalysis, head) ==
    IF el.src = <<>> THEN acc                        \* if (!src) continue
    ELSE AnalyzeResolved(acc, el, index, FullUrl(el.src, baseUrl),
                         includeImageSizeAnalysis, includeAltTextAnalysis, head)

RECURSIVE AnalyzeLoop(_, _, _, _, _, _, _, _)
AnalyzeLoop(acc, imageElements, i, imagesToAnalyze, baseUrl, includeImageSizeAnalysis, includeAltTextAnalysis, heads) ==
    IF i < imagesToAnalyze
    THEN AnalyzeLoop(AnalyzeImage(acc, imageElements[i + 1], i + 1, baseUrl,
                                  includeImageSizeAnalysis,
                                  includeAltTextAnalysis, heads[i + 1]),
                     imageElements, i + 1, imagesToAnalyze, baseUrl,
                     includeImageSizeAnalysis, includeAltTextAnalysis, heads)
    ELSE acc

\* the number of elements, whatever the cap
IgnoreCap(a, b) == a

Min(a, b) == IF a < b THEN a ELSE b

\* the aggregates, with imagesWithAltCount counted from the hasAlt flags
ImagesAnalysisByHasAlt(totalImagesFound, acc) ==
    [totalImagesFound |-> totalImagesFound,
     imagesAnalyzed |-> Len(acc.images),
     images |-> acc.images,
     imagesWithoutAlt |-> acc.imagesWithoutAlt,
     imagesWithoutAltCount |-> Len(acc.imagesWithoutAlt),
     imagesWithAltCount |-> Len(SelectSeq(acc.images, LAMBDA im : im.hasAlt)),
     averageImageSize |->
        IF Len(acc.images) > 0
        THEN RoundDiv(acc.totalImageSize, Len(acc.images)) ELSE 0,
     totalImageSize |-> acc.totalImageSize,
     imageTypes |-> acc.imageTypes]

\* the aggregates of analyzeImages
ImagesAnalysis(totalImagesFound, acc) ==
    [totalImagesFound |-> totalImagesFound,
     imagesAnalyzed |-> Len(acc.images),
     images |-> acc.images,
     imagesWithoutAlt |-> acc.imagesWithoutAlt,
     imagesWithoutAltCount |-> Len(acc.imagesWithoutAlt),
     imagesWithAltCount |-> Len(acc.images) - Len(acc.imagesWithoutAlt),
     averageImageSize |->
        IF Len(acc.images) > 0
        THEN RoundDiv(acc.totalImageSize, Len(acc.images)) ELSE 0,
     totalImageSize |-> acc.totalImageSize,
     imageTypes |-> acc.imageTypes]

\* heads[i]: the answer to the HEAD request of the i-th image element
analyzeImages(imageElements, baseUrl, maxImagesPerPage, includeImageSizeAnalysis, includeAltTextAnalysis, heads) ==
    ImagesAnalysis(
        Len(imageElements),
        AnalyzeLoop([images |-> <<>>, imagesWithoutAlt |-> <<>>,
                     totalImageSize |-> 0, imageTypes |-> <<>>],
                    imageElements, 0,
                    IF maxImagesPerPage = -1 THEN Len(imageElements)
                    ELSE Min(Len(imageElements), maxImagesPerPage),
                    baseUrl, includeImageSizeAnalysis, includeAltTextAnalysis,
                    heads))

\* only include internal links
KeepInternal(fullUrl, baseDomain) ==
    IF fullUrl = THROWN THEN <<>>                    \* skip invalid URLs
    ELSE IF StartsWith(fullUrl, baseDomain) THEN <<[url |-> fullUrl]>>
    ELSE <<>>

\* one anchor of analyzeLinks: the link it adds to internalLinks, if any
InternalLink(href, baseUrl) ==
    IF href = <<>> THEN <<>>                         \* if (!href) return
    ELSE KeepInternal(FullUrl(href, baseUrl), Origin(baseUrl))

RECURSIVE analyzeLinks(_, _)
analyzeLinks(anchors, baseUrl) ==
    IF anchors = <<>> THEN <<>>
    ELSE InternalLink(Head(anchors), baseUrl) \o analyzeLinks(Tail(anchors), baseUrl)

(***************************************************************************)
(* A document: [title, imgs: the img[src] elements, anchors: the href of   *)
(* the a[href] elements], both in document order.                          *)
(***************************************************************************)
PageData(url, title, imagesAnalysis, internalLinks) ==
    [url |-> url, title |-> title, domain |-> Hostname(url),
     images |-> imagesAnalysis.images,
     imagesWithoutAlt |-> imagesAnalysis.imagesWithoutAlt,
     imagesWithoutAltCount |-> imagesAnalysis.imagesWithoutAltCount,
     imagesWithAltCount |-> imagesAnalysis.imagesWithAltCount,
     totalImagesFound |-> imagesAnalysis.totalImagesFound,
     imagesAnalyzed |-> imagesAnalysis.imagesAnalyzed,
     averageImageSize |-> imagesAnalysis.averageImageSize,
     totalImageSize |-> imagesAnalysis.totalImageSize,
     imageTypes |-> imagesAnalysis.imageTypes,
     data_source |-> "msd_page_images",
     _internalLinks |-> internalLinks]

analyzePage(url, html, maxImagesPerPage, includeImageSizeAnalysis, includeAltTextAnalysis, heads) ==
    IF ~CanParse(url) THEN Thrown      \* new URL(url) in extractPageInfo
    ELSE PageData(url, Trim(html.title),
                  analyzeImages(html.imgs, url, maxImagesPerPage,
                                includeImageSizeAnalysis,
                                includeAltTextAnalysis, heads),
                  analyzeLinks(html.anchors, url))

(***************************************************************************)
(* calculateDomainAnalysis.  A field a page result lacks reads as          *)
(* undefined, and (undefined || 0) is 0.  A ratio that JavaScript          *)
(* computes as NaN (0 / 0) is the value NaN, written here as a number no   *)
(* count, sum or percentage takes.  Values rounded to two                  *)
(* decimals are kept in hundredths.                                        *)
(***************************************************************************)
NaN == -1

FieldOr0(r, f) == IF f \in DOMAIN r THEN r[f] ELSE 0

\* a reduce that leaves the last page out
RECURSIVE SumFieldButLast(_, _)
SumFieldButLast(results, f) ==
    IF Len(results) <= 1 THEN 0
    ELSE FieldOr0(Head(results), f) + SumFieldButLast(Tail(results), f)

RECURSIVE SumField(_, _)
SumField(results, f) ==
    IF results = <<>> THEN 0
    ELSE FieldOr0(Head(results), f) + SumField(Tail(results), f)

RECURSIVE MergeTypes(_, _)
\* a merge that stores the count of the page in place of adding it
RECURSIVE MergeTypesOverwriting(_, _)
MergeTypesOverwriting(imageTypes, entries) ==
    IF entries = <<>> THEN imageTypes
    ELSE MergeTypesOverwriting(
            ObjAdd(imageTypes, Head(entries).type,
                   Head(entries).count - ObjGet(imageTypes, Head(entries).type)),
            Tail(entries))

MergeTypes(imageTypes, entries) ==
    IF entries = <<>> THEN imageTypes
    ELSE MergeTypes(ObjAdd(imageTypes, Head(entries).type, Head(entries).count),
                    Tail(entries))

RECURSIVE MergeAllTypes(_, _)
MergeAllTypes(imageTypes, results) ==
    IF results = <<>> THEN imageTypes
    ELSE MergeAllTypes(
            IF "imageTypes" \in DOMAIN Head(results)
            THEN MergeTypes(imageTypes, Head(results).imageTypes)
            ELSE imageTypes,
            Tail(results))

\* keys.reduce((a, b) => imageTypes[a] > imageTypes[b] ? a : b, 'unknown')
RECURSIVE ReduceMostCommon(_, _, _)
\* a reduce that keeps the key it holds when the counts are equal
RECURSIVE ReduceKeepingTies(_, _, _)
ReduceKeepingTies(imageTypes, a, i) ==
    IF i > Len(imageTypes) THEN a
    ELSE ReduceKeepingTies(imageTypes,
             IF ObjHas(imageTypes, a)
                /\ ObjGet(imageTypes, a) >= ObjGet(imageTypes, imageTypes[i].type)
             THEN a ELSE imageTypes[i].type,
             i + 1)

ReduceMostCommon(imageTypes, a, i) ==
    IF i > Len(imageTypes) THEN a
    ELSE LET b == imageTypes[i].type
         IN  ReduceMostCommon(imageTypes,
                 \* imageTypes[a] is undefined when a is no key: the
                 \* comparison is then false
                 IF ObjHas(imageTypes, a)
                    /\ ObjGet(imageTypes, a) > ObjGet(imageTypes, b)
                 THEN a ELSE b,
                 i + 1)

IsSuccessful(r) ==
    "error" \notin DOMAIN r /\ r.statusCode >= 200 /\ r.statusCode < 300

\* every page that is not successful counted as an error page
IsErrorUnlessSuccessful(r) ==
    ~("error" \notin DOMAIN r /\ r.statusCode >= 200 /\ r.statusCode < 300)

IsError(r) == "error" \in DOMAIN r \/ r.statusCode >= 400

CountSuccessful(results) ==
    Cardinality({i \in 1..Len(results) : IsSuccessful(results[i])})

CountError(results) ==
    Cardinality({i \in 1..Len(results) : IsError(results[i])})

\* Math.round((n / d) * 100)
Percentage(n, d) == IF d = 0 THEN NaN ELSE RoundDiv(n * 100, d)

calculateDomainAnalysis(results) ==
    LET firstUrl == IF results # <<>> /\ "url" \in DOMAIN results[1]
                    THEN results[1].url ELSE <<>>
        totalPages == Len(results)
        successfulPages == CountSuccessful(results)
        errorPages == CountError(results)
        totalImagesFound == SumField(results, "totalImagesFound")
        totalImagesAnalyzed == SumField(results, "imagesAnalyzed")
        totalImagesWithoutAlt == SumField(results, "imagesWithoutAltCount")
        totalImageSize == SumField(results, "totalImageSize")
        imageTypes == MergeAllTypes(<<>>, results)
        averageImagesPerPage ==
            IF totalPages > 0 THEN RoundDiv(totalImagesFound * 100, totalPages)
            ELSE 0
        averageImageSize ==
            IF totalImagesAnalyzed > 0
            THEN RoundDiv(totalImageSize, totalImagesAnalyzed) ELSE 0
        imagesWithoutAltPercentage ==
            IF totalImagesAnalyzed > 0
            THEN RoundDiv(totalImagesWithoutAlt * 100, totalImagesAnalyzed)
            ELSE 0
    IN  IF firstUrl # <<>> /\ ~CanParse(firstUrl) THEN Thrown
        ELSE
        [domain_name |-> IF firstUrl # <<>> THEN Hostname(firstUrl) ELSE <<>>,
         total_pages_analyzed |-> totalPages,
         pages_with_successful_status |-> successfulPages,
         pages_with_successful_status_percentage |->
            Percentage(successfulPages, totalPages),
         pages_with_error_status |-> errorPages,
         pages_with_error_status_percentage |->
            Percentage(errorPages, totalPages),
         total_images_found |-> totalImagesFound,
         total_images_analyzed |-> totalImagesAnalyzed,
         total_images_without_alt |-> totalImagesWithoutAlt,
         total_images_without_alt_percentage |-> imagesWithoutAltPercentage,
         total_image_size_bytes |-> totalImageSize,
         total_image_size_kb |-> KbHundredths(totalImageSize),
         average_images_per_page |-> averageImagesPerPage,
         average_image_size_bytes |-> averageImageSize,
         average_image_size_kb |-> KbHundredths(averageImageSize),
         image_types |-> imageTypes,
         most_common_image_type |->
            ReduceMostCommon(imageTypes, <<"unknown">>, 1),
         needs_alt_text_optimization |-> totalImagesWithoutAlt > 0]

(***************************************************************************)
(* The inputs and the web.                                                 *)
(***************************************************************************)
ExampleRoot == <<"https://", "example.com", "/">>

\* startUrl: missing, unparseable, normalized, the bare origin
StartUrls ==
    { <<>>,
      <<"not a url">>,
      ExampleRoot,
      <<"https://", "example.com">> }

\* the href attributes a page may hold
Hrefs ==
    { <<"/", "a">>,
      <<"/", "b">>,
      <<"https://", "example.com", ".evil.org", "/">>,
      <<"https://", "other.org", "/">> }

RECURSIVE SeqsUpTo(_, _)
SeqsUpTo(S, n) ==
    IF n = 0 THEN {<<>>}
    ELSE LET shorter == SeqsUpTo(S, n - 1)
         IN  shorter \cup {Append(q, x) : q \in shorter, x \in S}

\* a page below /a, which only a page other than the seed links to
DeepHref == <<"/", "a", "/", "b">>

\* a page linking to both forms of one URL: with and without fragment,
\* the bare origin with and without its slash
FragmentForms == <<<<"/", "a">>, <<"/", "a", "#top">>>>

SlashForms == <<<<"https://", "example.com">>, ExampleRoot>>

AnchorLists ==
    SeqsUpTo(Hrefs, MaxLinks) \cup {<<DeepHref>>, FragmentForms, SlashForms}

Img(src, alt) ==
    [src |-> src, alt |-> alt, title |-> NoAttr, width |-> NoAttr,
     height |-> NoAttr]

\* data:image/png;base64, followed by L base64 characters
DataUri(L) ==
    <<"data:", "image", "/", "png", ";base64", ",">> \o [i \in 1..L |-> "A"]

\* the img[src] elements a page may hold
ImgElems ==
    { Img(<<"/", "img", ".png">>, <<>>),
      Img(<<"https://", "other.org", "/", "img", ".JPG">>, <<"logo">>),
      Img(<<"img", ".bin">>, <<" ">>),
      Img(<<"/", "img", ".svg">>, <<"logo">>),
      Img(<<"https://", "[">>, NoAttr),
      Img(<<>>, <<"logo">>) }
    \cup {Img(DataUri(L), NoAttr) : L \in 0..MaxPayload}

ImgLists == SeqsUpTo(ImgElems, MaxImgs)

\* the pages the crawl meets: every list of anchors, with or without images
CrawlImgLists ==
    { <<>>,
      <<Img(<<"/", "img", ".png">>, <<>>),
        Img(<<"https://", "other.org", "/", "img", ".JPG">>, <<"logo">>)>> }

Doc(imgs, anchors) == [title |-> <<"t">>, imgs |-> imgs, anchors |-> anchors]

\* a response axios resolves with: validateStatus accepts every status < 500
CrawlResponses ==
    {[status |-> 200, data |-> Doc(imgs, anchors)] :
        imgs \in CrawlImgLists, anchors \in AnchorLists}
    \cup {[status |-> 404, data |-> Doc(<<>>, <<>>)]}

\* an error axios rejects with: its code and the status of its response
\* (0: it carries no response)
FetchErrors ==
    { [code |-> "ENOTFOUND", response |-> 0],
      [code |-> "ECONNREFUSED", response |-> 0],
      [code |-> "ETIMEDOUT", response |-> 0],
      [code |-> "ECONNRESET", response |-> 0],
      [code |-> "ERR_BAD_RESPONSE", response |-> 502],
      [code |-> "ERR_FAILED", response |-> 0] }

Heads == [1..MaxImgs -> HeadOutcomes]

\* a HEAD request answered with a type and a length, and one that fails
AnsweredHead ==
    [ok |-> TRUE, status |-> 200, contentType |-> <<"image", "/", "png">>,
     contentLength |-> 1000]

FailedHead == [ok |-> FALSE, status |-> 0]

\* the HEAD answers the crawl meets: the first image of a page is
\* answered, the HEAD request for the second one fails
CrawlHeads == {[i \in 1..MaxImgs |-> IF i = 1 THEN AnsweredHead ELSE FailedHead]}

\* the HEAD answers behind the page results handed to the aggregation:
\* every image answered, or every request failed
DomainHeads == {[i \in 1..MaxImgs |-> h] : h \in {AnsweredHead, FailedHead}}

\* a destructuring default: const { field = dflt } = input
Default(obj, field, dflt) == IF field \in DOMAIN obj THEN obj[field] ELSE dflt

(***************************************************************************)
(* State.                                                                  *)
(*   site            "actor" (Actor.main), "server" (POST /analyze-multi), *)
(*                   "analyze" (POST /analyze) or "domain" (a call of      *)
(*                   calculateDomainAnalysis)                              *)
(*   input           the input of the run or the body of the request      *)
(*   pc              "start", "loop" (at the while test), "fetch" (at      *)
(*                   await axios.get), "done", "failed"                    *)
(*   fetched         the URLs axios.get was called with, in order          *)
(*   output          what the run wrote or the request answered            *)
(*   usage           the values set under PAGE_ANALYZED, in order          *)
(*   received        POST /analyze: the response and the HEAD answers the  *)
(*                   handler was given                                     *)
(* With two requests in flight (SpecMulti) each variable of the crawl      *)
(* holds one value per request.                                            *)
(***************************************************************************)
VARIABLES site, input, pc, results, visitedUrls, urlsToProcess,
          processedCount, pagesAnalyzedCount, currentUrl, fetched, output,
          usage, received

vars == <<site, input, pc, results, visitedUrls, urlsToProcess,
          processedCount, pagesAnalyzedCount, currentUrl, fetched, output,
          usage, received>>

NoOutput == [kind |-> "none"]

CrawlInputs ==
    [startUrl : StartUrls, crawlUrls : BOOLEAN, maxPages : 1..MaxPagesBound,
     maxImagesPerPage : {-1}, includeImageSizeAnalysis : {TRUE},
     includeAltTextAnalysis : {TRUE}]

InitState ==
    /\ pc = "start"
    /\ results = <<>>
    /\ visitedUrls = {}
    /\ urlsToProcess = <<>>
    /\ processedCount = 0
    /\ pagesAnalyzedCount = 0
    /\ currentUrl = <<>>
    /\ fetched = <<>>
    /\ output = NoOutput
    /\ usage = <<>>
    /\ received = <<>>

\* the example input of the README: startUrl and maxPages only
ReadmeInputs == [startUrl : {ExampleRoot}, maxPages : 1..MaxPagesBound]

Init ==
    /\ site \in {"actor", "server"}
    /\ input \in CrawlInputs \cup ReadmeInputs
    /\ InitState

\* the defaults of the destructured input
InputDefaults ==
    [crawlUrls |-> site = "server",
     maxImagesPerPage |-> IF site = "actor" THEN -1 ELSE 20,
     includeImageSizeAnalysis |-> TRUE,
     includeAltTextAnalysis |-> TRUE]

Option(field) == Default(input, field, InputDefaults[field])

\* the actor's crawlUrls (default false), the server's crawlInternalLinks
\* (default true)
crawlUrls == Option("crawlUrls")

effectiveMaxPages ==
    IF site = "actor" THEN (IF crawlUrls THEN input.maxPages ELSE 1)
    ELSE input.maxPages

\* the run throws (actor) or the request is answered with an error (server)
Fail(status, message) ==
    /\ pc' = "failed"
    /\ output' = [kind |-> "error", status |-> status, error |-> message]

(***************************************************************************)
(* From the entry to the while loop: the validation of startUrl and the    *)
(* initial queue.                                                          *)
(***************************************************************************)
\* Start without the parse of startUrl (new URL(startUrl).hostname)
StartUnparsed ==
    /\ pc = "start"
    /\ IF input.startUrl = <<>>
       THEN /\ Fail(IF site = "actor" THEN 0 ELSE 400, "startUrl is required")
            /\ UNCHANGED urlsToProcess
       ELSE IF site = "actor" /\ normalize(input.startUrl) = THROWN
       THEN /\ Fail(0, "Invalid URL")
            /\ UNCHANGED urlsToProcess
       ELSE /\ urlsToProcess' =
                  IF site = "actor" THEN <<normalize(input.startUrl)>>
                  ELSE <<input.startUrl>>
            /\ pc' = "loop"
            /\ UNCHANGED output
    /\ UNCHANGED <<site, input, results, visitedUrls, processedCount,
                   pagesAnalyzedCount, currentUrl, fetched, usage, received>>

Start ==
    /\ pc = "start"
    /\ IF input.startUrl = <<>>
       THEN /\ Fail(IF site = "actor" THEN 0 ELSE 400, "startUrl is required")
            /\ UNCHANGED urlsToProcess
       ELSE IF ~CanParse(input.startUrl)
       THEN /\ Fail(IF site = "actor" THEN 0 ELSE 500, "Invalid URL")
            /\ UNCHANGED urlsToProcess
       ELSE IF site = "actor" /\ normalize(input.startUrl) = THROWN
       THEN /\ Fail(0, "Invalid URL")
            /\ UNCHANGED urlsToProcess
       ELSE /\ urlsToProcess' =
                  IF site = "actor" THEN <<normalize(input.startUrl)>>
                  ELSE <<input.startUrl>>
            /\ pc' = "loop"
            /\ UNCHANGED output
    /\ UNCHANGED <<site, input, results, visitedUrls, processedCount,
                   pagesAnalyzedCount, currentUrl, fetched, usage, received>>

\* the loop condition without the page cap
LoopConditionNoCap ==
    Len(urlsToProcess) > 0

LoopCondition ==
    Len(urlsToProcess) > 0 /\ processedCount < effectiveMaxPages

\* urlsToProcess.shift(), the visited test, and the call of axios.get
Dequeue ==
    /\ pc = "loop"
    /\ LoopCondition
    /\ currentUrl' = Head(urlsToProcess)
    /\ urlsToProcess' = Tail(urlsToProcess)
    /\ IF Head(urlsToProcess) \in visitedUrls
       THEN UNCHANGED <<pc, visitedUrls, fetched>>          \* continue
       ELSE /\ visitedUrls' = visitedUrls \cup {Head(urlsToProcess)}
            /\ fetched' = Append(fetched, Head(urlsToProcess))
            /\ pc' = "fetch"
    /\ UNCHANGED <<site, input, results, processedCount, pagesAnalyzedCount,
                   output, usage, received>>

\* a new link appended without the test for its presence in the queue
EnqueueLinkUntested(queue, visited, linkObj, normalizedUrl) ==
    LET normalizedLink == normalize(linkObj.url)
    IN  IF normalizedLink = THROWN THEN queue
        ELSE IF /\ StartsWith(normalizedLink, Origin(normalizedUrl))
                /\ normalizedLink \notin visited
        THEN Append(queue, normalizedLink)
        ELSE queue

\* a new link put at the front of the queue (unshift): depth-first
EnqueueLinkFront(queue, visited, linkObj, normalizedUrl) ==
    LET normalizedLink == normalize(linkObj.url)
    IN  IF normalizedLink = THROWN THEN queue
        ELSE IF /\ StartsWith(normalizedLink, Origin(normalizedUrl))
                /\ normalizedLink \notin visited
                /\ \A i \in 1..Len(queue) : queue[i] # normalizedLink
        THEN <<normalizedLink>> \o queue
        ELSE queue

\* one internal link of the page: the queue after it
EnqueueLink(queue, visited, linkObj, normalizedUrl) ==
    LET baseDomain == Origin(normalizedUrl)
        link == linkObj.url
        fullUrl == IF StartsWithHttp(link) THEN link
                   ELSE IF StartsWithSlash(link) THEN baseDomain \o link
                   ELSE ResolveHref(link, normalizedUrl)
        normalizedLink == normalize(fullUrl)
    IN  IF fullUrl = THROWN \/ normalizedLink = THROWN THEN queue
        ELSE IF /\ StartsWith(normalizedLink, baseDomain)
                /\ normalizedLink \notin visited
                /\ \A i \in 1..Len(queue) : queue[i] # normalizedLink
        THEN Append(queue, normalizedLink)
        ELSE queue

RECURSIVE EnqueueLinks(_, _, _, _)
EnqueueLinks(queue, visited, links, normalizedUrl) ==
    IF links = <<>> THEN queue
    ELSE EnqueueLinks(EnqueueLink(queue, visited, Head(links), normalizedUrl),
                      visited, Tail(links), normalizedUrl)

\* error.message: it tells the kind of the failure
ErrorMessage(error) == <<error.code, error.response>>

\* the status code of the degraded result of a failed page
ErrorStatus(error) ==
    IF site = "actor"
    THEN IF error.response # 0 THEN error.response
         ELSE IF error.code \in {"ENOTFOUND", "ECONNREFUSED"} THEN 404
         ELSE IF error.code = "ETIMEDOUT" THEN 408
         ELSE IF error.code = "ECONNRESET" THEN 503
         ELSE 500
    ELSE IF error.response # 0 THEN error.response ELSE 500

\* a catch branch that lets the failure of the page end the crawl
PageFailedAborts(error) ==
    /\ Fail(IF site = "actor" THEN 0 ELSE 500, ErrorMessage(error))
    /\ UNCHANGED <<site, input, results, visitedUrls, urlsToProcess,
                   processedCount, pagesAnalyzedCount, currentUrl, fetched,
                   usage, received>>

\* the catch branch of the per-page try
PageFailed(error) ==
    /\ results' = Append(results,
                         [url |-> currentUrl, error |-> ErrorMessage(error),
                          statusCode |-> ErrorStatus(error),
                          data_source |-> "msd_page_images"])
    /\ pc' = "loop"
    /\ UNCHANGED <<site, input, visitedUrls, urlsToProcess, processedCount,
                   pagesAnalyzedCount, currentUrl, fetched, output, usage,
                   received>>

\* axios.get rejects
FetchFail ==
    /\ pc = "fetch"
    /\ \E error \in FetchErrors : PageFailed(error)

\* links enqueued whether or not crawling is enabled
ShouldEnqueueAlways(imageData) ==
    Len(imageData._internalLinks) > 0

\* if crawling is enabled, extract internal links for further processing
ShouldEnqueue(imageData) ==
    crawlUrls /\ Len(imageData._internalLinks) > 0

\* axios.get resolves: the page is analysed, its result appended, its
\* internal links enqueued
FetchOk ==
    /\ pc = "fetch"
    /\ \E response \in CrawlResponses, heads \in CrawlHeads :
         LET normalizedUrl == IF site = "actor" THEN currentUrl
                              ELSE normalize(currentUrl)
             imageData == analyzePage(normalizedUrl, response.data,
                                      Option("maxImagesPerPage"),
                                      Option("includeImageSizeAnalysis"),
                                      Option("includeAltTextAnalysis"), heads)
         IN  IF normalizedUrl = THROWN \/ IsThrown(imageData)
             THEN PageFailed([code |-> "ERR_INVALID_URL", response |-> 0])
             ELSE
             /\ results' = Append(results,
                                  imageData @@ [statusCode |-> response.status])
             /\ pagesAnalyzedCount' =
                    IF site = "actor" THEN pagesAnalyzedCount + 1
                    ELSE pagesAnalyzedCount
             /\ urlsToProcess' =
                    IF ShouldEnqueue(imageData)
                    THEN EnqueueLinks(urlsToProcess, visitedUrls,
                                      imageData._internalLinks, normalizedUrl)
                    ELSE urlsToProcess
             /\ processedCount' = processedCount + 1
             /\ pc' = "loop"
             /\ UNCHANGED <<site, input, visitedUrls, currentUrl, fetched,
                            output, usage, received>>

\* Finish reporting the number of results, failed pages included
FinishReportsResults ==
    /\ pc = "loop"
    /\ ~LoopCondition
    /\ LET domainAnalysis == calculateDomainAnalysis(results)
       IN  IF IsThrown(domainAnalysis)
           THEN /\ Fail(IF site = "actor" THEN 0 ELSE 500, "Invalid URL")
                /\ UNCHANGED usage
           ELSE /\ output' = [kind |-> "output",
                              domain |-> domainAnalysis,
                              pages |-> results,
                              analysis |-> [total_pages_processed |-> Len(results),
                                            images_engine_version |-> "1.0.0",
                                            data_format_version |-> "1.0"]]
                /\ usage' = IF site = "actor"
                            THEN Append(usage, Len(results)) ELSE usage
                /\ pc' = "done"
    /\ UNCHANGED <<site, input, results, visitedUrls, urlsToProcess,
                   processedCount, pagesAnalyzedCount, currentUrl, fetched,
                   received>>

\* after the loop: the domain analysis and the final output
Finish ==
    /\ pc = "loop"
    /\ ~LoopCondition
    /\ LET domainAnalysis == calculateDomainAnalysis(results)
       IN  IF IsThrown(domainAnalysis)
           THEN /\ Fail(IF site = "actor" THEN 0 ELSE 500, "Invalid URL")
                /\ UNCHANGED usage
           ELSE /\ output' = [kind |-> "output",
                              domain |-> domainAnalysis,
                              pages |-> results,
                              analysis |-> [total_pages_processed |-> Len(results),
                                            images_engine_version |-> "1.0.0",
                                            data_format_version |-> "1.0"]]
                /\ usage' = IF site = "actor"
                            THEN Append(usage, pagesAnalyzedCount) ELSE usage
                /\ pc' = "done"
    /\ UNCHANGED <<site, input, results, visitedUrls, urlsToProcess,
                   processedCount, pagesAnalyzedCount, currentUrl, fetched,
                   received>>

Next == Start \/ Dequeue \/ FetchOk \/ FetchFail \/ Finish

Spec == Init /\ [][Next]_vars

(***************************************************************************)
(* POST /analyze: one page, fetched at the url as given and analysed       *)
(* under its normalized form.                                              *)
(***************************************************************************)
AnalyzeInputs ==
    [url : {<<>>, <<"not a url">>, ExampleRoot,
            <<"https://", "example.com", "/", "a", "#top">>},
     maxImagesPerPage : {-1} \cup 1..MaxImgs,
     includeImageSizeAnalysis : BOOLEAN,
     includeAltTextAnalysis : BOOLEAN]

AnalyzeResponses ==
    {[status |-> 200, data |-> Doc(imgs, <<<<"/", "a">>>>)] : imgs \in ImgLists}
    \cup {[status |-> 404, data |-> Doc(<<>>, <<>>)]}

InitAnalyze ==
    /\ site = "analyze"
    /\ input \in AnalyzeInputs
    /\ InitState

\* the validation of url and the call of axios.get
AnalyzeStart ==
    /\ pc = "start"
    /\ IF input.url = <<>>
       THEN /\ Fail(400, "URL is required")
            /\ UNCHANGED <<currentUrl, fetched>>
       ELSE /\ currentUrl' = input.url
            /\ fetched' = Append(fetched, input.url)
            /\ pc' = "fetch"
            /\ UNCHANGED output
    /\ UNCHANGED <<site, input, results, visitedUrls, urlsToProcess,
                   processedCount, pagesAnalyzedCount, usage, received>>

\* the catch branch of the handler
AnalyzeFailed(error) ==
    LET statusCode == IF error.response # 0 THEN error.response ELSE 500
    IN  /\ pc' = "failed"
        /\ output' = [kind |-> "error", status |-> statusCode,
                      error |-> ErrorMessage(error), url |-> input.url,
                      statusCode |-> statusCode,
                      data_source |-> "msd_page_images"]
        /\ UNCHANGED <<site, input, results, visitedUrls, urlsToProcess,
                       processedCount, pagesAnalyzedCount, currentUrl,
                       fetched, usage, received>>

\* axios.get rejects (at once when the url is no URL)
AnalyzeFetchFail ==
    /\ pc = "fetch"
    /\ \E error \in FetchErrors :
         /\ CanParse(currentUrl) \/ error.code = "ERR_FAILED"
         /\ AnalyzeFailed(error)

\* axios.get resolves: the page is analysed and the result sent
AnalyzeFetchOk ==
    /\ pc = "fetch"
    /\ CanParse(currentUrl)
    /\ \E response \in AnalyzeResponses, heads \in Heads :
         LET normalizedUrl == normalize(currentUrl)
             imageData == analyzePage(normalizedUrl, response.data,
                                      input.maxImagesPerPage,
                                      input.includeImageSizeAnalysis,
                                      input.includeAltTextAnalysis, heads)
         IN  /\ normalizedUrl # THROWN
             /\ ~IsThrown(imageData)
             /\ output' = [kind |-> "json", status |-> 200,
                           body |-> imageData
                                      @@ [statusCode |-> response.status]]
             /\ received' = <<response, heads>>
             /\ pc' = "done"
             /\ UNCHANGED <<site, input, results, visitedUrls, urlsToProcess,
                            processedCount, pagesAnalyzedCount, currentUrl,
                            fetched, usage>>

NextAnalyze == AnalyzeStart \/ AnalyzeFetchFail \/ AnalyzeFetchOk

SpecAnalyze == InitAnalyze /\ [][NextAnalyze]_vars


(***************************************************************************)
(* calculateDomainAnalysis as a function of the page results it is given:  *)
(* input.results is its argument, output.domain what it returns.           *)
(***************************************************************************)
\* the images of a summarised page: none, two of different types, one of
\* a type another page has, one of unknown type
DomainImgLists ==
    CrawlImgLists
    \cup {<<Img(<<"https://", "other.org", "/", "img", ".JPG">>, <<"logo">>)>>,
          <<Img(<<"img", ".bin">>, <<" ">>)>>}

\* page results as the crawl appends them: analysed pages of several
\* statuses, with and without images, and a degraded one
DomainPages ==
    {analyzePage(ExampleRoot, Doc(imgs, <<>>), -1, TRUE, TRUE, heads)
        @@ [statusCode |-> status] :
        imgs \in DomainImgLists, heads \in DomainHeads,
        status \in {200, 304, 404}}
    \cup {[url |-> ExampleRoot \o <<"a">>,
           error |-> ErrorMessage([code |-> "ETIMEDOUT", response |-> 0]),
           statusCode |-> 408, data_source |-> "msd_page_images"]}

InitDomain ==
    /\ site = "domain"
    /\ input \in [results : SeqsUpTo(DomainPages, MaxResults)]
    /\ InitState

\* calculateDomainAnalysis(results)
Aggregate ==
    /\ pc = "start"
    /\ IF IsThrown(calculateDomainAnalysis(input.results))
       THEN Fail(500, "Invalid URL")
       ELSE /\ output' = [kind |-> "domain",
                          domain |-> calculateDomainAnalysis(input.results)]
            /\ pc' = "done"
    /\ UNCHANGED <<site, input, results, visitedUrls, urlsToProcess,
                   processedCount, pagesAnalyzedCount, currentUrl, fetched,
                   usage, received>>

NextDomain == Aggregate

SpecDomain == InitDomain /\ [][NextDomain]_vars

(***************************************************************************)
(* Two POST /analyze-multi requests in one process.  The handler keeps its *)
(* crawl state in variables local to the call, so every variable of the    *)
(* model holds one value per request; the analyzers of the module are      *)
(* shared and hold no state.  The steps of a request are functions of its  *)
(* crawl state c and of its body.  received[r] lists what the fetches of   *)
(* request r were answered with.                                           *)
(***************************************************************************)
Requests == 1..2

MultiBodies ==
    [startUrl : {ExampleRoot, ExampleRoot \o <<"a">>},
     maxPages : 1..MaxPagesBound, maxImagesPerPage : {20},
     includeImageSizeAnalysis : {TRUE}, includeAltTextAnalysis : {TRUE},
     crawlInternalLinks : {TRUE}]

MultiResponses ==
    {[status |-> 200, data |-> Doc(<<>>, anchors)] :
        anchors \in {<<>>, <<<<"/", "a">>>>, <<<<"/", "a">>, <<"/", "b">>>>}}

MultiErrors == {[code |-> "ETIMEDOUT", response |-> 0]}

MultiHeads == [i \in 1..MaxImgs |-> [ok |-> FALSE, status |-> 0]]

\* the crawl state of a request that has not started
NewCrawl ==
    [pc |-> "start", results |-> <<>>, visitedUrls |-> {},
     urlsToProcess |-> <<>>, processedCount |-> 0, currentUrl |-> <<>>,
     output |-> NoOutput]

\* res.status(status).json({error: message})
MultiFailed(c, status, message) ==
    [c EXCEPT !.pc = "failed",
              !.output = [kind |-> "error", status |-> status,
                          error |-> message]]

\* from the entry of the handler to the while loop
MultiStart(c, body) ==
    IF body.startUrl = <<>> THEN MultiFailed(c, 400, "startUrl is required")
    ELSE IF ~CanParse(body.startUrl) THEN MultiFailed(c, 500, "Invalid URL")
    ELSE [c EXCEPT !.urlsToProcess = <<body.startUrl>>, !.pc = "loop"]

MultiLoopCondition(c, body) ==
    Len(c.urlsToProcess) > 0 /\ c.processedCount < body.maxPages

\* urlsToProcess.shift(), the visited test, and the call of axios.get
MultiDequeue(c) ==
    IF Head(c.urlsToProcess) \in c.visitedUrls
    THEN [c EXCEPT !.currentUrl = Head(c.urlsToProcess),
                   !.urlsToProcess = Tail(@)]
    ELSE [c EXCEPT !.currentUrl = Head(c.urlsToProcess),
                   !.urlsToProcess = Tail(@),
                   !.visitedUrls = @ \cup {Head(c.urlsToProcess)},
                   !.pc = "fetch"]

\* the catch branch of the per-page try
MultiPageFailed(c, error) ==
    [c EXCEPT !.results =
                  Append(@, [url |-> c.currentUrl,
                             error |-> ErrorMessage(error),
                             statusCode |-> IF error.response # 0
                                            THEN error.response ELSE 500,
                             data_source |-> "msd_page_images"]),
              !.pc = "loop"]

\* the try body after axios.get resolved
MultiPageAnalysed(c, body, response, imageData, normalizedUrl) ==
    [c EXCEPT !.results =
                  Append(@, imageData @@ [statusCode |-> response.status]),
              !.urlsToProcess =
                  IF body.crawlInternalLinks
                     /\ Len(imageData._internalLinks) > 0
                  THEN EnqueueLinks(@, c.visitedUrls,
                                    imageData._internalLinks, normalizedUrl)
                  ELSE @,
              !.processedCount = @ + 1,
              !.pc = "loop"]

MultiFetchOk(c, body, response, heads) ==
    IF normalize(c.currentUrl) = THROWN
    THEN MultiPageFailed(c, [code |-> "ERR_INVALID_URL", response |-> 0])
    ELSE MultiPageAnalysed(c, body, response,
                           analyzePage(normalize(c.currentUrl), response.data,
                                       body.maxImagesPerPage,
                                       body.includeImageSizeAnalysis,
                                       body.includeAltTextAnalysis, heads),
                           normalize(c.currentUrl))

\* after the loop: the summary and res.json(finalOutput)
MultiFinish(c) ==
    IF IsThrown(calculateDomainAnalysis(c.results))
    THEN MultiFailed(c, 500, "Invalid URL")
    ELSE [c EXCEPT !.output =
                       [kind |-> "output",
                        domain |-> calculateDomainAnalysis(c.results),
                        pages |-> c.results,
                        analysis |->
                            [total_pages_processed |-> Len(c.results),
                             images_engine_version |-> "1.0.0",
                             data_format_version |-> "1.0"]],
                   !.pc = "done"]

\* the crawl state of a request whose visited set is one set of the module
CrawlOfSharingVisited(r) ==
    [pc |-> pc[r], results |-> results[r],
     visitedUrls |-> UNION {visitedUrls[q] : q \in Requests},
     urlsToProcess |-> urlsToProcess[r], processedCount |-> processedCount[r],
     currentUrl |-> currentUrl[r], output |-> output[r]]

\* the crawl state of request r: the variables of its call
CrawlOf(r) ==
    [pc |-> pc[r], results |-> results[r], visitedUrls |-> visitedUrls[r],
     urlsToProcess |-> urlsToProcess[r], processedCount |-> processedCount[r],
     currentUrl |-> currentUrl[r], output |-> output[r]]

\* request r goes on with the crawl state c
Put(r, c) ==
    /\ pc' = [pc EXCEPT ![r] = c.pc]
    /\ results' = [results EXCEPT ![r] = c.results]
    /\ visitedUrls' = [visitedUrls EXCEPT ![r] = c.visitedUrls]
    /\ urlsToProcess' = [urlsToProcess EXCEPT ![r] = c.urlsToProcess]
    /\ processedCount' = [processedCount EXCEPT ![r] = c.processedCount]
    /\ currentUrl' = [currentUrl EXCEPT ![r] = c.currentUrl]
    /\ output' = [output EXCEPT ![r] = c.output]

InitMulti ==
    /\ site = "server"
    /\ input \in [Requests -> MultiBodies]
    /\ pc = [r \in Requests |-> NewCrawl.pc]
    /\ results = [r \in Requests |-> NewCrawl.results]
    /\ visitedUrls = [r \in Requests |-> NewCrawl.visitedUrls]
    /\ urlsToProcess = [r \in Requests |-> NewCrawl.urlsToProcess]
    /\ processedCount = [r \in Requests |-> NewCrawl.processedCount]
    /\ currentUrl = [r \in Requests |-> NewCrawl.currentUrl]
    /\ output = [r \in Requests |-> NewCrawl.output]
    /\ received = [r \in Requests |-> <<>>]
    /\ fetched = [r \in Requests |-> <<>>]
    /\ pagesAnalyzedCount = 0
    /\ usage = <<>>

RequestStart(r) ==
    /\ pc[r] = "start"
    /\ Put(r, MultiStart(CrawlOf(r), input[r]))
    /\ UNCHANGED <<site, input, pagesAnalyzedCount, fetched, usage, received>>

RequestDequeue(r) ==
    /\ pc[r] = "loop"
    /\ MultiLoopCondition(CrawlOf(r), input[r])
    /\ Put(r, MultiDequeue(CrawlOf(r)))
    /\ fetched' = [fetched EXCEPT ![r] =
                      IF MultiDequeue(CrawlOf(r)).pc = "fetch"
                      THEN Append(@, Head(urlsToProcess[r])) ELSE @]
    /\ UNCHANGED <<site, input, pagesAnalyzedCount, usage, received>>

RequestFetchOk(r) ==
    /\ pc[r] = "fetch"
    /\ \E response \in MultiResponses :
         /\ Put(r, MultiFetchOk(CrawlOf(r), input[r], response, MultiHeads))
         /\ received' = [received EXCEPT ![r] =
                            Append(@, [ok |-> TRUE, response |-> response,
                                       heads |-> MultiHeads])]
    /\ UNCHANGED <<site, input, pagesAnalyzedCount, fetched, usage>>

RequestFetchFail(r) ==
    /\ pc[r] = "fetch"
    /\ \E error \in MultiErrors :
         /\ Put(r, MultiPageFailed(CrawlOf(r), error))
         /\ received' = [received EXCEPT ![r] =
                            Append(@, [ok |-> FALSE, error |-> error])]
    /\ UNCHANGED <<site, input, pagesAnalyzedCount, fetched, usage>>

RequestFinish(r) ==
    /\ pc[r] = "loop"
    /\ ~MultiLoopCondition(CrawlOf(r), input[r])
    /\ Put(r, MultiFinish(CrawlOf(r)))
    /\ UNCHANGED <<site, input, pagesAnalyzedCount, fetched, usage, received>>

NextMulti ==
    \E r \in Requests :
        \/ RequestStart(r)
        \/ RequestDequeue(r)
        \/ RequestFetchOk(r)
        \/ RequestFetchFail(r)
        \/ RequestFinish(r)

SpecMulti == InitMulti /\ [][NextMulti]_vars

(***************************************************************************)
(* The properties of the multi-page crawl (Spec).                          *)
(***************************************************************************)
IsDegraded(r) == "error" \in DOMAIN r

ValidSeed == input.startUrl # <<>> /\ CanParse(input.startUrl)

\* C1: no two pages attempted in one crawl have the same normalized URL,
\* the seed included, at the actor and at the server.
C1_NoNormalizedUrlAttemptedTwice ==
    \A i, j \in 1..Len(fetched) :
        i # j => normalize(fetched[i]) # normalize(fetched[j])

\* C2: the number of pages attempted (fetches issued, results appended)
\* never exceeds the page cap, whatever pages fail.
C2_AttemptsWithinMaxPages ==
    /\ Len(fetched) <= effectiveMaxPages
    /\ Len(results) <= effectiveMaxPages

\* C3: a failed page fetch does not end the crawl: it appends exactly one
\* degraded result (url, error, statusCode) for the page and leaves the
\* queue alone, and when the queue is not empty and the cap not reached the
\* very next step takes the next queued URL and fetches it.
AfterFailure ==
    /\ pc = "loop"
    /\ results # <<>>
    /\ IsDegraded(results[Len(results)])

FailureAppendsDegraded ==
    (pc = "fetch" /\ processedCount' = processedCount) =>
        /\ pc' = "loop"
        /\ output' = output
        /\ urlsToProcess' = urlsToProcess
        /\ Len(results') = Len(results) + 1
        /\ SubSeq(results', 1, Len(results)) = results
        /\ {"url", "error", "statusCode"} \subseteq DOMAIN results'[Len(results')]
        /\ results'[Len(results')].url = currentUrl
        /\ results'[Len(results')].statusCode \in Nat

NextUrlFetched ==
    (AfterFailure /\ LoopCondition) =>
        /\ pc' = "fetch"
        /\ currentUrl' = Head(urlsToProcess)
        /\ fetched' = Append(fetched, Head(urlsToProcess))
        /\ results' = results

C3_FailureNeverAbortsCrawl ==
    /\ [][FailureAppendsDegraded]_vars
    /\ [][NextUrlFetched]_vars
    /\ []((AfterFailure /\ LoopCondition) => ENABLED Dequeue)

\* a page is being fetched right after the failure of the page before it
C3_FetchAfterFailure ==
    /\ pc = "fetch"
    /\ results # <<>>
    /\ IsDegraded(results[Len(results)])
    /\ currentUrl # results[Len(results)].url

\* C4: a crawl with a valid seed terminates, and it stops only with the
\* queue empty or the cap reached.  Every step strictly decreases a
\* lexicographic variant over the naturals (pages left under the cap, queue
\* length, position in the loop), whatever number of links a page adds to
\* the queue, and no state before the end is stuck.
Rank(p) ==
    CASE p = "start" -> 3
      [] p = "fetch" -> 2
      [] p = "loop" -> 1
      [] OTHER -> 0

Variant ==
    <<IF pc = "start" THEN 1 ELSE 0,
      effectiveMaxPages - processedCount,
      Len(urlsToProcess),
      Rank(pc)>>

LexLess(a, b) ==
    \E i \in 1..Len(a) :
        /\ a[i] < b[i]
        /\ \A j \in 1..(i - 1) : a[j] = b[j]

C4_CrawlTerminates ==
    /\ [](\A i \in 1..Len(Variant) : Variant[i] \in Nat)
    /\ [][LexLess(Variant', Variant)]_vars
    /\ []((ValidSeed /\ pc # "done") => ENABLED Next)
    /\ [](ValidSeed => pc # "failed")
    /\ [](pc = "done" =>
            (urlsToProcess = <<>> \/ processedCount >= effectiveMaxPages))

\* the crawl ended at the cap with links still waiting in the queue
C4_StoppedAtCapWithQueue ==
    /\ pc = "done"
    /\ crawlUrls
    /\ urlsToProcess # <<>>
    /\ processedCount = effectiveMaxPages

\* C5: with a missing or unparseable startUrl the crawl fails before any
\* page is fetched and any result exists: nothing is output, stored or
\* charged.
C5_InvalidSeedFailsBeforeAnyFetch ==
    ~ValidSeed =>
        /\ pc \in {"start", "failed"}
        /\ fetched = <<>>
        /\ results = <<>>
        /\ urlsToProcess = <<>>
        /\ usage = <<>>
        /\ output.kind \in {"none", "error"}
        /\ (pc = "failed" <=> output.kind = "error")

\* the crawl of an unparseable startUrl has failed
C5_UnparseableSeedFailed ==
    /\ pc = "failed"
    /\ input.startUrl # <<>>
    /\ ~CanParse(input.startUrl)

\* C6: no page of the final output carries the internal-links list the
\* analyzer returns for the crawler's use.
C6_OutputPagesOmitInternalLinks ==
    output.kind = "output" =>
        \A i \in 1..Len(output.pages) :
            "_internalLinks" \notin DOMAIN output.pages[i]

\* C8: the totals of the domain summary (images found, analysed, without
\* alt, size in bytes) are the sums of the fields of the pages of the
\* output, a degraded page counting 0.
PageValue(p, f) == IF IsDegraded(p) THEN 0 ELSE p[f]

RECURSIVE PagesTotal(_, _, _)
PagesTotal(pages, f, n) ==
    IF n = 0 THEN 0
    ELSE PagesTotal(pages, f, n - 1) + PageValue(pages[n], f)

C8_DomainTotalsAreSumsOverPages ==
    output.kind = "output" =>
        LET d == output.domain
            n == Len(output.pages)
        IN  /\ d.total_images_found =
                   PagesTotal(output.pages, "totalImagesFound", n)
            /\ d.total_images_analyzed =
                   PagesTotal(output.pages, "imagesAnalyzed", n)
            /\ d.total_images_without_alt =
                   PagesTotal(output.pages, "imagesWithoutAltCount", n)
            /\ d.total_image_size_bytes =
                   PagesTotal(output.pages, "totalImageSize", n)

\* an output of several pages, the last with images and one degraded
C8_TotalsOverDegradedAndAnalysedPages ==
    /\ output.kind = "output"
    /\ Len(output.pages) > 1
    /\ \E i \in 1..Len(output.pages) : IsDegraded(output.pages[i])
    /\ PageValue(output.pages[Len(output.pages)], "totalImagesFound") > 0
    /\ output.domain.total_image_size_bytes > 0
    /\ output.domain.total_images_without_alt > 0

\* C9: with crawling disabled exactly one page (the seed) is attempted and
\* no URL is ever added to the queue, whatever maxPages is.
QueueNeverGrows ==
    (~crawlUrls /\ pc # "start") =>
        Len(urlsToProcess') <= Len(urlsToProcess)

C9_NoCrawlAttemptsOnlySeed ==
    /\ []((~crawlUrls /\ ValidSeed) =>
            /\ Len(fetched) <= 1
            /\ Len(results) <= 1
            /\ Len(urlsToProcess) <= 1
            /\ (pc = "done" => Len(fetched) = 1 /\ Len(results) = 1))
    /\ [][QueueNeverGrows]_vars

\* a crawl without crawling ended after the seed, whose page had links and
\* whose maxPages allowed more pages
C9_SeedWithLinksOnly ==
    /\ pc = "done"
    /\ ~crawlUrls
    /\ input.maxPages > 1
    /\ site = "server"
    /\ ~IsDegraded(results[1])
    /\ Len(results[1]._internalLinks) = MaxLinks

\* C10: the statusCode of a degraded result follows the kind of the
\* failure: DNS failure or refused connection 404, timeout 408, connection
\* reset 503, any other failure with an HTTP response that response's
\* status, everything else 500; at the actor and at the server.
ClaimedStatus(message) ==
    IF message[1] \in {"ENOTFOUND", "ECONNREFUSED"} THEN 404
    ELSE IF message[1] = "ETIMEDOUT" THEN 408
    ELSE IF message[1] = "ECONNRESET" THEN 503
    ELSE IF message[2] # 0 THEN message[2]
    ELSE 500

C10_DegradedStatusFollowsFailureKind ==
    \A i \in 1..Len(results) :
        IsDegraded(results[i]) =>
            results[i].statusCode = ClaimedStatus(results[i].error)

(***************************************************************************)
(* The properties of the analysis of one page (SpecAnalyze).               *)
(***************************************************************************)
\* C7: in every analysed page imagesWithAltCount + imagesWithoutAltCount =
\* imagesAnalyzed = the length of images, and imagesAnalyzed is at most
\* totalImagesFound, for every document and every option.
C7_ImageCountsPartition ==
    output.kind = "json" =>
        /\ output.body.imagesWithAltCount + output.body.imagesWithoutAltCount
               = output.body.imagesAnalyzed
        /\ output.body.imagesAnalyzed = Len(output.body.images)
        /\ output.body.imagesAnalyzed <= output.body.totalImagesFound

\* a page analysed without alt analysis, one image of it skipped and the
\* other one lacking alt text
C7_SkippedAndAnalysedImages ==
    /\ output.kind = "json"
    /\ ~input.includeAltTextAnalysis
    /\ output.body.imagesAnalyzed > 0
    /\ output.body.imagesAnalyzed < output.body.totalImagesFound
    /\ \E i \in 1..Len(output.body.images) : ~output.body.images[i].hasAlt

(***************************************************************************)
(* The order of the crawl (Spec).                                          *)
(***************************************************************************)
IsPrefix(s, t) == Len(s) <= Len(t) /\ SubSeq(t, 1, Len(s)) = s

\* every URL ever enqueued, in the order of its enqueueing: those taken
\* from the queue, then those still in it
History == fetched \o urlsToProcess

\* the pages analysed before position k whose links hold History[k]
Discoverers(k) ==
    {j \in 1..Len(results) :
        /\ j < k
        /\ ~IsDegraded(results[j])
        /\ \E l \in 1..Len(results[j]._internalLinks) :
               normalize(results[j]._internalLinks[l].url) = History[k]}

SetMin(S) == CHOOSE x \in S : \A y \in S : x <= y

\* the link distance from the seed of History[k], along the links the
\* crawl has seen; -1 for a URL no page analysed links to
RECURSIVE Depth(_)
Depth(k) ==
    IF k = 1 THEN 0
    ELSE IF Discoverers(k) = {} THEN -1
    ELSE Depth(SetMin(Discoverers(k))) + 1

\* the position in links of the first link that is enqueued as u; 0 if none
FirstLinkTo(links, u) ==
    IF \E l \in 1..Len(links) : normalize(links[l].url) = u
    THEN SetMin({l \in 1..Len(links) : normalize(links[l].url) = u})
    ELSE 0

HistoryAppendOnly == IsPrefix(History, History')

ResultsFollowFetched ==
    /\ Len(results) <= Len(fetched)
    /\ \A i \in 1..Len(results) :
           results[i].url \in {fetched[i], normalize(fetched[i])}

NewLinksInDocumentOrder ==
    (pc = "fetch" /\ processedCount' > processedCount) =>
        /\ IsPrefix(urlsToProcess, urlsToProcess')
        /\ \A m \in (Len(urlsToProcess) + 1)..Len(urlsToProcess') :
               /\ FirstLinkTo(results'[Len(results')]._internalLinks,
                              urlsToProcess'[m]) > 0
               /\ m > Len(urlsToProcess) + 1 =>
                      FirstLinkTo(results'[Len(results')]._internalLinks,
                                  urlsToProcess'[m - 1])
                      < FirstLinkTo(results'[Len(results')]._internalLinks,
                                    urlsToProcess'[m])

DepthNonDecreasing ==
    \A k \in 1..Len(History) :
        /\ Depth(k) >= 0
        /\ k > 1 => Depth(k - 1) <= Depth(k)

\* C11: pages are visited in discovery order: the results follow the URLs
\* fetched, which are always the front of the sequence of the URLs
\* enqueued (the seed, then each page's new links in document order, put
\* at the end), and along that sequence the link distance from the seed
\* never decreases.
C11_VisitedInDiscoveryOrder ==
    /\ []ResultsFollowFetched
    /\ [][HistoryAppendOnly]_vars
    /\ [][NewLinksInDocumentOrder]_vars
    /\ []DepthNonDecreasing

\* the first link of the seed was analysed and its own link waits in the
\* queue behind the second link of the seed
C11_DeeperLinkQueuedBehind ==
    /\ site = "actor"
    /\ Len(fetched) = 2
    /\ Len(results) = 2
    /\ Len(urlsToProcess) = 2
    /\ Depth(3) = 1
    /\ Depth(4) = 2

(***************************************************************************)
(* The images of one analysed page (SpecAnalyze).                          *)
(***************************************************************************)
PngDataHeader == <<"data:", "image", "/", "png", ";base64", ",">>

IsPngDataUri(u) == StartsWith(u, PngDataHeader)

\* the number of base64 characters of the payload
PayloadLength(u) == Len(u) - Len(PngDataHeader)

\* an image record of a data URI of MIME image/png: its size is 3/4 of the
\* payload length rounded to the nearest byte, its type image/png, its
\* status 200
PngDataUriAnalysed(image) ==
    /\ 4 * image.sizeInBytes - 3 * PayloadLength(image.imageUrl) \in -2..2
    /\ image.contentType = <<"image", "/", "png">>
    /\ image.statusCode = 200

\* C12 (as stated): every analysed image whose source is a data URI of
\* MIME image/png with L base64 characters has sizeBytes = round(L*3/4),
\* contentType image/png and a success status, whatever the options.
C12_DataUriSizeAndType ==
    output.kind = "json" =>
        \A i \in 1..Len(output.body.images) :
            IsPngDataUri(output.body.images[i].imageUrl) =>
                PngDataUriAnalysed(output.body.images[i])

\* C12 (amended): the same, when the size-analysis option is enabled.
C12_DataUriSizeAndTypeWithSizeAnalysis ==
    (output.kind = "json" /\ input.includeImageSizeAnalysis) =>
        \A i \in 1..Len(output.body.images) :
            IsPngDataUri(output.body.images[i].imageUrl) =>
                PngDataUriAnalysed(output.body.images[i])

\* a data URI of 2 base64 characters (1.5 bytes) analysed as 2 bytes
C12_HalfByteRoundedUp ==
    /\ output.kind = "json"
    /\ input.includeImageSizeAnalysis
    /\ \E i \in 1..Len(output.body.images) :
           /\ IsPngDataUri(output.body.images[i].imageUrl)
           /\ PayloadLength(output.body.images[i].imageUrl) = 2
           /\ output.body.images[i].sizeInBytes = 2

\* the answer to the HEAD request of the image of a record
HeadOf(image) == received[2][image.imageIndex]

\* the metadata fetch of the image was made and failed
HeadFailed(image) ==
    /\ ~IsDataUri(image.imageUrl)
    /\ CanParse(image.imageUrl)
    /\ ~HeadOf(image).ok

\* the image elements within the cap whose metadata fetch is made and fails
FailedElements ==
    {k \in 1..Len(received[1].data.imgs) :
        /\ input.maxImagesPerPage = -1 \/ k <= input.maxImagesPerPage
        /\ StartsWithHttp(received[1].data.imgs[k].src)
        /\ CanParse(received[1].data.imgs[k].src)
        /\ ~received[2][k].ok}

\* what the record of an image keeps of a failed metadata fetch, the error
\* message apart
SoftFailureRecorded(image) ==
    /\ image.contentType = detectContentTypeFromUrl(image.imageUrl)
    /\ image.sizeInBytes = 0
    /\ image.statusCode =
           IF HeadOf(image).status # 0 THEN HeadOf(image).status ELSE 500

\* C13: a failed metadata fetch of an image does not abort the page: the
\* image is in the page's images, with the content type of its extension,
\* sizeBytes 0, the failure status code (500 by default) and an error
\* message on its record.
C13_FailedImageFetchRecorded ==
    (output.kind = "json" /\ input.includeImageSizeAnalysis) =>
        /\ \A k \in FailedElements :
               \E i \in 1..Len(output.body.images) :
                   output.body.images[i].imageIndex = k
        /\ \A i \in 1..Len(output.body.images) :
               HeadFailed(output.body.images[i]) =>
                   /\ SoftFailureRecorded(output.body.images[i])
                   /\ "error" \in DOMAIN output.body.images[i]

\* the img[src] elements of the page that was analysed
PageImgs == received[1].data.imgs

\* the number of elements the cap lets through
WithinCap ==
    IF input.maxImagesPerPage = -1 THEN Len(PageImgs)
    ELSE IF input.maxImagesPerPage < Len(PageImgs)
    THEN input.maxImagesPerPage
    ELSE Len(PageImgs)

\* the image reference of an element is well formed: it is not empty and
\* it resolves against the page to a URL
WellFormed(el) ==
    /\ el.src # <<>>
    /\ FullUrl(el.src, output.body.url) # THROWN
    /\ IsDataUri(FullUrl(el.src, output.body.url))
           \/ CanParse(FullUrl(el.src, output.body.url))

\* C14: the images analysed are among the first min(c, totalImagesFound)
\* elements, in document order; totalImagesFound counts every element;
\* when every reference is well formed, exactly those elements are
\* analysed (all of them with the sentinel -1).
C14_CapTakesFirstImages ==
    output.kind = "json" =>
        /\ output.body.totalImagesFound = Len(PageImgs)
        /\ \A i \in 1..Len(output.body.images) :
               /\ output.body.images[i].imageIndex \in 1..WithinCap
               /\ i > 1 => output.body.images[i - 1].imageIndex
                               < output.body.images[i].imageIndex
        /\ (\A k \in 1..Len(PageImgs) : WellFormed(PageImgs[k])) =>
               /\ output.body.imagesAnalyzed = WithinCap
               /\ \A i \in 1..Len(output.body.images) :
                      /\ output.body.images[i].imageIndex = i
                      /\ output.body.images[i].imageUrl =
                             FullUrl(PageImgs[i].src, output.body.url)

\* a page of two well-formed images analysed under a cap of one
C14_SecondImageBeyondCap ==
    /\ output.kind = "json"
    /\ input.maxImagesPerPage = 1
    /\ Len(PageImgs) = 2
    /\ \A k \in 1..Len(PageImgs) : WellFormed(PageImgs[k])
    /\ output.body.totalImagesFound = 2
    /\ output.body.imagesAnalyzed = 1

(***************************************************************************)
(* The usage count of the actor (Spec).                                    *)
(***************************************************************************)
\* the number of pages analysed: the results that are not degraded
PagesAnalysed(rs) == Cardinality({i \in 1..Len(rs) : ~IsDegraded(rs[i])})

CountsAnalysedPages ==
    site = "actor" =>
        /\ pagesAnalyzedCount = PagesAnalysed(results)
        /\ Len(usage) <= 1
        /\ usage # <<>> <=> pc = "done"
        /\ usage # <<>> =>
               /\ usage[1] = PagesAnalysed(output.pages)
               /\ ~LoopCondition

CountGrowsWithAnalysedPages ==
    /\ pagesAnalyzedCount' >= pagesAnalyzedCount
    /\ pagesAnalyzedCount' - pagesAnalyzedCount
           = PagesAnalysed(results') - PagesAnalysed(results)
    /\ Len(results') > Len(results) =>
           pagesAnalyzedCount' - pagesAnalyzedCount
               = IF IsDegraded(results'[Len(results')]) THEN 0 ELSE 1

Range(q) == {q[i] : i \in 1..Len(q)}

\* the URLs the crawl hands to normalize: the seed, the URLs of the queue
\* and of the visited set, and the links of the pages analysed
LinksOf(rs) ==
    UNION {Range([l \in 1..Len(rs[j]._internalLinks) |->
                     rs[j]._internalLinks[l].url]) :
           j \in {i \in 1..Len(rs) : ~IsDegraded(rs[i])}}

Normalized ==
    {input.startUrl} \cup visitedUrls \cup Range(urlsToProcess)
        \cup LinksOf(results)

\* normalize applied twice is normalize applied once
IdempotentOn(u) ==
    normalize(u) # THROWN => normalize(normalize(u)) = normalize(u)

\* C16: normalize is idempotent on every URL it accepts, so a URL taken
\* from the visited set or from the queue normalizes to itself.
C16_NormalizeIdempotentOnQueue ==
    /\ \A u \in Normalized : IdempotentOn(u)
    /\ \A u \in visitedUrls \cup Range(urlsToProcess) : normalize(u) = u

\* u without its fragment, the bare origin with its slash
WithoutFragment(u) ==
    IF Len(u) > 0 /\ u[Len(u)] \in FragTokens THEN SubSeq(u, 1, Len(u) - 1)
    ELSE u

WithSlash(u) == IF Origin(u) = u THEN u \o <<"/">> ELSE u

\* two valid URLs that differ at most by a fragment or by the slash after
\* the bare origin
SamePage(u1, u2) ==
    /\ CanParse(u1)
    /\ CanParse(u2)
    /\ WithSlash(WithoutFragment(u1)) = WithSlash(WithoutFragment(u2))

\* the number of URLs enqueued so far that are forms of the URL u
TimesEnqueued(u) ==
    Cardinality({i \in 1..Len(History) : SamePage(History[i], u)})

\* C17: two valid URLs that differ only by a fragment or by the slash of
\* the bare origin have the same normalized form, so a page whose forms
\* the crawl discovers as links is enqueued, and visited, once.
C17_FormsOfALinkVisitedOnce ==
    /\ \A u1, u2 \in Normalized :
           SamePage(u1, u2) => normalize(u1) = normalize(u2)
    /\ \A u \in LinksOf(results) : CanParse(u) => TimesEnqueued(u) <= 1

\* C19: crawling is enabled by default: an actor run whose input gives
\* only startUrl and maxPages has, when it ends, attempted maxPages pages
\* or the seed page and every other page the seed page links to, whichever
\* is fewer.
DefaultedRun == "crawlUrls" \notin DOMAIN input

SeedAnalysed == Len(results) >= 1 /\ ~IsDegraded(results[1])

SeedLinks == {normalize(u) : u \in LinksOf(<<results[1]>>)} \ {results[1].url}

CrawledByDefault ==
    (DefaultedRun /\ SeedAnalysed /\ pc = "done") =>
        Len(results) >= Min(input.maxPages, 1 + Cardinality(SeedLinks))

C19_CrawlingEnabledByDefault == site = "actor" => CrawledByDefault

\* C20: processedCount equals the number of page results appended so far,
\* whenever the loop is about to test its condition or the run has ended:
\* every attempted page, fetched or failed, adds one to both.
C20_ProcessedCountEqualsResults ==
    pc \in {"loop", "done"} => processedCount = Len(results)

(***************************************************************************)
(* The domain summary of given page results (SpecDomain).                  *)
(***************************************************************************)
\* C18: every percentage of the domain summary is 0 when its denominator
\* is 0: the successful-page and error-page percentages when there is no
\* page, the images-without-alt percentage when no image was analysed.
C18_PercentagesZeroOnZeroDenominator ==
    output.kind = "domain" =>
        /\ Len(input.results) = 0 =>
               /\ output.domain.pages_with_successful_status_percentage = 0
               /\ output.domain.pages_with_error_status_percentage = 0
        /\ output.domain.total_images_analyzed = 0 =>
               output.domain.total_images_without_alt_percentage = 0

(***************************************************************************)
(* The frontier of the crawl (Spec).                                       *)
(***************************************************************************)
NoDuplicates(q) == \A i, j \in 1..Len(q) : q[i] = q[j] => i = j

\* C21: the queue holds no URL twice and no visited URL, so the URL the
\* loop is about to take from the queue is never a visited one: the
\* discard of a visited URL never happens.
C21_QueueHoldsNewUrlsOnce ==
    /\ NoDuplicates(urlsToProcess)
    /\ Range(urlsToProcess) \cap visitedUrls = {}
    /\ (pc = "loop" /\ LoopCondition) => Head(urlsToProcess) \notin visitedUrls

\* a page with two links to one page was analysed, the page queued once
C21_TwoLinksToOnePageQueuedOnce ==
    /\ crawlUrls
    /\ Len(results) = 1
    /\ ~IsDegraded(results[1])
    /\ Len(results[1]._internalLinks) = 2
    /\ Cardinality({normalize(u) : u \in LinksOf(results)}) = 1
    /\ Len(urlsToProcess) = 1

\* C22: every URL enqueued or fetched has the origin (scheme, host, port)
\* of the seed: a link to another host, even one whose URL begins with the
\* text of the seed's origin, is never followed.
C22_OnlySeedOriginFollowed ==
    \A u \in Range(History) : CanParse(u) /\ Origin(u) = Origin(input.startUrl)

(***************************************************************************)
(* The alt texts of the images of one page (SpecAnalyze).                  *)
(***************************************************************************)
Lacking(images) == SelectSeq(images, LAMBDA im : ~im.hasAlt)

\* the {imageUrl, imageIndex} entries of the images without alt text
EntriesOf(images) ==
    [i \in 1..Len(images) |->
        [imageUrl |-> images[i].imageUrl, imageIndex |-> images[i].imageIndex]]

AltBlank(image) == image.alt = <<>> \/ Trim(image.alt) = <<>>

\* C23: with alt-text analysis enabled, imagesWithoutAlt is the
\* sub-sequence of images, as {imageUrl, imageIndex} in the same order,
\* whose hasAlt is false, and hasAlt is false exactly when the alt
\* attribute is absent or blank after trimming.
C23_ImagesWithoutAltAreThoseLackingAlt ==
    (output.kind = "json" /\ input.includeAltTextAnalysis) =>
        /\ output.body.imagesWithoutAlt = EntriesOf(Lacking(output.body.images))
        /\ \A i \in 1..Len(output.body.images) :
               output.body.images[i].hasAlt = ~AltBlank(output.body.images[i])

\* a page with an image of blank alt text and an image with alt text,
\* analysed with alt-text analysis
C23_BlankAltTracked ==
    /\ output.kind = "json"
    /\ input.includeAltTextAnalysis
    /\ Len(output.body.images) = 2
    /\ output.body.images[1].alt = <<"logo">>
    /\ output.body.images[2].alt = <<" ">>
    /\ Len(output.body.imagesWithoutAlt) = 1

HavingAlt(images) == SelectSeq(images, LAMBDA im : im.hasAlt)

AltCountsFollowHasAlt ==
    /\ output.body.imagesWithAltCount = Len(HavingAlt(output.body.images))
    /\ output.body.imagesWithoutAltCount = Len(Lacking(output.body.images))

\* C24: imagesWithAltCount is the number of images with hasAlt true and
\* imagesWithoutAltCount the number with hasAlt false, for every option
\* setting, alt-text analysis disabled included.
C24_AltCountsFollowHasAlt ==
    output.kind = "json" => AltCountsFollowHasAlt

\* what the counts are: they follow hasAlt when alt-text analysis is
\* enabled; when it is disabled no image is tracked, imagesWithoutAltCount
\* is 0 and imagesWithAltCount is imagesAnalyzed
AltCountsAsComputed ==
    output.kind = "json" =>
        IF input.includeAltTextAnalysis THEN AltCountsFollowHasAlt
        ELSE /\ output.body.imagesWithoutAltCount = 0
             /\ output.body.imagesWithAltCount = output.body.imagesAnalyzed


(***************************************************************************)
(* The image types of one page (SpecAnalyze).                              *)
(***************************************************************************)
\* the keys of a histogram and of the images counted in it
KeysOf(obj) == {obj[i].type : i \in 1..Len(obj)}

TypesOf(images) == {TypeOf(images[i].contentType) : i \in 1..Len(images)}

\* the number of images of a subtype
NumberOfType(images, type) ==
    Cardinality({i \in 1..Len(images) : TypeOf(images[i].contentType) = type})

RECURSIVE SumCounts(_)
SumCounts(obj) == IF obj = <<>> THEN 0 ELSE Head(obj).count + SumCounts(Tail(obj))

IsHistogramOf(obj, images) ==
    /\ KeysOf(obj) = TypesOf(images)
    /\ \A i \in 1..Len(obj) : obj[i].count = NumberOfType(images, obj[i].type)
    /\ \A i, j \in 1..Len(obj) : obj[i].type = obj[j].type => i = j

\* C25: imageTypes is the histogram of the content-type subtypes of the
\* analysed images, every image counted under exactly one key, so its
\* counts sum to imagesAnalyzed, with size analysis on or off and whether
\* or not the inspection of an image failed.
C25_ImageTypesIsHistogramOfImages ==
    output.kind = "json" =>
        /\ IsHistogramOf(output.body.imageTypes, output.body.images)
        /\ SumCounts(output.body.imageTypes) = output.body.imagesAnalyzed

\* the images whose inspection did not throw
Inspected(images) == SelectSeq(images, LAMBDA im : "error" \notin DOMAIN im)

\* what imageTypes is: the histogram of the images whose inspection did
\* not throw
ImageTypesCountInspectedImages ==
    output.kind = "json" =>
        IsHistogramOf(output.body.imageTypes, Inspected(output.body.images))


(***************************************************************************)
(* The analysis of one page without size analysis (SpecAnalyze).           *)
(***************************************************************************)
\* the fixed table from the extension to the content type
ExtensionTable ==
    [ext \in {".jpg", ".jpeg", ".png", ".gif", ".webp", ".svg", ".bmp",
              ".ico", ".tiff", ".tif"} |->
        CASE ext \in {".jpg", ".jpeg"} -> "jpeg"
          [] ext = ".png" -> "png"
          [] ext = ".gif" -> "gif"
          [] ext = ".webp" -> "webp"
          [] ext = ".svg" -> "svg+xml"
          [] ext = ".bmp" -> "bmp"
          [] ext = ".ico" -> "x-icon"
          [] ext \in {".tiff", ".tif"} -> "tiff"]

\* the last token of the path of a URL, in lower case
Extension(imageUrl) ==
    IF IsDataUri(imageUrl) THEN Lower(imageUrl[Len(imageUrl)])
    ELSE Lower(Pathname(imageUrl)[Len(Pathname(imageUrl))])

TypeByExtension(imageUrl) ==
    IF Extension(imageUrl) \in DOMAIN ExtensionTable
    THEN <<"image", "/", ExtensionTable[Extension(imageUrl)]>>
    ELSE <<"image", "/", "unknown">>

\* the body of the response had the HEAD requests been answered by heads
BodyUnder(heads) ==
    analyzePage(output.body.url, received[1].data, input.maxImagesPerPage,
                input.includeImageSizeAnalysis, input.includeAltTextAnalysis,
                heads) @@ [statusCode |-> received[1].status]

\* C26: with size analysis disabled the result does not depend on any
\* answer to a metadata request, every analysed image has size 0 and
\* status 200, and its content type is the one the fixed table gives for
\* the extension of its URL path (image/unknown for any other).
C26_NoSizeAnalysisTypeByExtension ==
    (output.kind = "json" /\ ~input.includeImageSizeAnalysis) =>
        /\ \A heads \in Heads : BodyUnder(heads) = output.body
        /\ \A i \in 1..Len(output.body.images) :
               /\ output.body.images[i].sizeInBytes = 0
               /\ output.body.images[i].sizeInKb = 0
               /\ output.body.images[i].statusCode = 200
               /\ output.body.images[i].contentType
                      = TypeByExtension(output.body.images[i].imageUrl)

\* a page with a .JPG and an .svg image analysed without size analysis,
\* where the HEAD request of the first would have been answered with a size
C26_TypesOfTwoExtensions ==
    /\ output.kind = "json"
    /\ ~input.includeImageSizeAnalysis
    /\ Len(output.body.images) = 2
    /\ output.body.images[1].contentType = <<"image", "/", "jpeg">>
    /\ output.body.images[2].contentType = <<"image", "/", "svg+xml">>
    /\ received[2][1].ok
    /\ received[2][1].contentLength = 1000


(***************************************************************************)
(* The most common image type of the domain summary (SpecDomain).          *)
(***************************************************************************)
SetMax(S) == CHOOSE x \in S : \A y \in S : y <= x

\* the positions, in insertion order, of the keys with the highest count
TopKeys(obj) ==
    {i \in 1..Len(obj) : \A j \in 1..Len(obj) : obj[j].count <= obj[i].count}

\* C27: most_common_image_type is a key of the merged histogram with the
\* highest count, the first such key in the order of the reduction when
\* several share that count, and 'unknown' when the histogram is empty.
C27_MostCommonIsFirstOfHighest ==
    output.kind = "domain" =>
        output.domain.most_common_image_type =
            IF output.domain.image_types = <<>> THEN <<"unknown">>
            ELSE output.domain.image_types[
                    SetMin(TopKeys(output.domain.image_types))].type

\* C27 as the reduction computes it: a key with the highest count, the
\* last such key in the order of the reduction when several share that
\* count, and 'unknown' when the histogram is empty.
C27_MostCommonIsLastOfHighest ==
    output.kind = "domain" =>
        output.domain.most_common_image_type =
            IF output.domain.image_types = <<>> THEN <<"unknown">>
            ELSE output.domain.image_types[
                    SetMax(TopKeys(output.domain.image_types))].type

\* a summary whose histogram has two keys of the same, highest count
C27_TwoKeysShareHighestCount ==
    /\ output.kind = "domain"
    /\ Len(output.domain.image_types) = 2
    /\ output.domain.image_types[1].count = output.domain.image_types[2].count
    /\ output.domain.most_common_image_type = output.domain.image_types[2].type


(***************************************************************************)
(* The domain summary and the order of the page results (SpecDomain).      *)
(***************************************************************************)
Orders(n) ==
    {f \in [1..n -> 1..n] : \A i, j \in 1..n : f[i] = f[j] => i = j}

Permuted(rs, f) == [i \in 1..Len(rs) |-> rs[f[i]]]

\* the counts, sums, averages and percentages of a summary, and its
\* histogram as the set of its (key, count) pairs
Totals(d) ==
    <<d.total_pages_analyzed, d.pages_with_successful_status,
      d.pages_with_successful_status_percentage, d.pages_with_error_status,
      d.pages_with_error_status_percentage, d.total_images_found,
      d.total_images_analyzed, d.total_images_without_alt,
      d.total_images_without_alt_percentage, d.total_image_size_bytes,
      d.total_image_size_kb, d.average_images_per_page,
      d.average_image_size_bytes, d.average_image_size_kb,
      {<<d.image_types[i].type, d.image_types[i].count>> :
          i \in 1..Len(d.image_types)}>>

\* C28: for every sequence of page results and every permutation of it
\* the summary has the same page counts, image sums, total size, averages,
\* percentages and the same count for every key of the histogram.
C28_TotalsIndependentOfOrder ==
    output.kind = "domain" =>
        \A f \in Orders(Len(input.results)) :
            Totals(calculateDomainAnalysis(Permuted(input.results, f)))
                = Totals(output.domain)

\* three page results summarised, where another order of the same pages
\* gives another most common image type
C28_OrderChangesMostCommonOnly ==
    /\ output.kind = "domain"
    /\ Len(input.results) = 3
    /\ output.domain.total_image_size_bytes > 0
    /\ \E f \in Orders(3) :
          calculateDomainAnalysis(Permuted(input.results, f)).most_common_image_type
              # output.domain.most_common_image_type


(***************************************************************************)
(* The page classes of the domain summary (SpecDomain).                    *)
(***************************************************************************)
InSuccessClass(r) ==
    "error" \notin DOMAIN r /\ r.statusCode \in 200..299

InErrorClass(r) == "error" \in DOMAIN r \/ r.statusCode >= 400

\* C29: every page result is counted as exactly one of successful (2xx
\* status and no error) or error (status >= 400 or error present), so
\* pages_with_successful_status + pages_with_error_status =
\* total_pages_analyzed, for every status code a page fetch can return.
C29_PagesSuccessfulOrError ==
    output.kind = "domain" =>
        /\ \A i \in 1..Len(input.results) :
               InSuccessClass(input.results[i]) # InErrorClass(input.results[i])
        /\ output.domain.pages_with_successful_status
               + output.domain.pages_with_error_status
               = output.domain.total_pages_analyzed

\* a page result with a status below 200 or from 300 to 399 and no error
InNeitherClass(r) == ~InSuccessClass(r) /\ ~InErrorClass(r)

NumberInNeither(rs) ==
    Cardinality({i \in 1..Len(rs) : InNeitherClass(rs[i])})

\* C29 as the summary counts: no page result is in both classes, the two
\* counts are the sizes of the classes, and their sum is
\* total_pages_analyzed less the number of page results with no error and
\* a status that is neither 2xx nor 400 or above.
C29_PagesInAtMostOneClass ==
    output.kind = "domain" =>
        /\ \A i \in 1..Len(input.results) :
               ~(InSuccessClass(input.results[i])
                   /\ InErrorClass(input.results[i]))
        /\ output.domain.pages_with_successful_status =
               Cardinality({i \in 1..Len(input.results) :
                               InSuccessClass(input.results[i])})
        /\ output.domain.pages_with_error_status =
               Cardinality({i \in 1..Len(input.results) :
                               InErrorClass(input.results[i])})
        /\ output.domain.pages_with_successful_status
               + output.domain.pages_with_error_status
               = output.domain.total_pages_analyzed
                   - NumberInNeither(input.results)

\* three pages summarised: one successful, one failed, one answered 304
C29_OneOfEachAndA304 ==
    /\ output.kind = "domain"
    /\ output.domain.total_pages_analyzed = 3
    /\ output.domain.pages_with_successful_status = 1
    /\ output.domain.pages_with_error_status = 1
    /\ \E i \in 1..3 : input.results[i].statusCode = 304
    /\ \E i \in 1..3 : IsDegraded(input.results[i])


(***************************************************************************)
(* Two interleaved requests (SpecMulti).                                   *)
(***************************************************************************)
\* the crawl of one request run alone from the crawl state c, its fetches
\* answered by events in turn: the crawl state at the end, or where it
\* waits for a fetch that events does not answer
RECURSIVE RunAlone(_, _, _)
RunAlone(c, body, events) ==
    IF c.pc \in {"done", "failed"} THEN c
    ELSE IF c.pc = "start" THEN RunAlone(MultiStart(c, body), body, events)
    ELSE IF c.pc = "loop"
    THEN RunAlone(IF MultiLoopCondition(c, body) THEN MultiDequeue(c)
                  ELSE MultiFinish(c),
                  body, events)
    ELSE IF events = <<>> THEN c
    ELSE RunAlone(IF Head(events).ok
                  THEN MultiFetchOk(c, body, Head(events).response,
                                    Head(events).heads)
                  ELSE MultiPageFailed(c, Head(events).error),
                  body, Tail(events))

\* C30: two requests whose steps interleave share no crawl state: at every
\* point each request is where it would be when run alone against the
\* answers its fetches received, in its visited set, queue, processedCount
\* and results, and it returns the output it would return alone.
C30_RequestsShareNoCrawlState ==
    \A r \in Requests :
        /\ RunAlone(CrawlOf(r), input[r], <<>>)
               = RunAlone(NewCrawl, input[r], received[r])
        /\ pc[r] \in {"done", "failed"} =>
               output[r] = RunAlone(NewCrawl, input[r], received[r]).output

\* both requests crawl the same site and wait for their second page at
\* the same time
C30_BothWaitingForSecondPage ==
    /\ \A r \in Requests : pc[r] = "fetch" /\ Len(results[r]) = 1
    /\ input[1].startUrl = input[2].startUrl
    /\ visitedUrls[1] \cap visitedUrls[2] # {}
    /\ results[1] # results[2]

============================================================================
